---- MODULE Spec2Model ----
(***************************************************************************)
(* Model of the laser-spot segmentation engine:                            *)
(*   data_base/segmentation_1.py   Segmentation.segmentation and helpers   *)
(*   data_base/mass_segmentation.py  segmentation_for_folder (the driver)  *)
(*                                                                         *)
(* Three specifications share the module:                                  *)
(*   Spec        the adaptive threshold driver over a folder of images     *)
(*   SpecSeg     Segmentation.segmentation on an in-memory pixel matrix     *)
(*   SpecStripe  other_segment_3 on an array of contour points             *)
(*                                                                         *)
(* Lengths are fixed-point integers: micrometres are held in units of      *)
(* 1e-5 um (the precision of np.round(..., 5)).                            *)
(***************************************************************************)
EXTENDS Integers, Sequences, FiniteSets, TLC

VARIABLES
    \* ---- segmentation_for_folder (mass_segmentation.py) ----
    n,                    \* len(filenames)
    index,                \* loop variable of "for index, file in enumerate"
    pc,                   \* position in segmentation_for_folder
    black_level,
    width, img_to_save, avg_width, std_div,
    prev_width, prev_img_to_save, prev_avg_width, prev_std_div,
    sup_list, result_list,
    avg_sup_list, avg_result_list,
    std_div_sup_list, std_div_result_list,
    error,                \* the exception that ended the batch, "" if none
    \* history of the driver, not program state
    px, prev_px,          \* pixel width behind width / prev_width (-1: no region)
    init_width,           \* width returned by the first (dark, 50) probe
    retries,              \* re-probes made inside the while loops for this image
    bright_probes,        \* probes made with type_='brigth' for this image
    kept,                 \* <<width, avg, std>> recorded per image, in order
    \* ---- Segmentation.segmentation on a pixel matrix (segmentation_1.py) ----
    image,                \* the caller's pixel matrix (gray value per pixel)
    image0,               \* the matrix as first handed over
    black_lavel, type_,
    gray_in, thresh,      \* gray matrix and mask of the latest call
    calls, results,       \* number of calls made, their return values
    \* ---- other_segment_3 on a point array ----
    arr, stripe_pc, stripe_runs, stripe_out

driver_vars == <<n, index, pc, black_level,
                 width, img_to_save, avg_width, std_div,
                 prev_width, prev_img_to_save, prev_avg_width, prev_std_div,
                 sup_list, result_list, avg_sup_list, avg_result_list,
                 std_div_sup_list, std_div_result_list, error,
                 px, prev_px, init_width, retries, bright_probes, kept>>
seg_vars == <<image, image0, black_lavel, type_, gray_in, thresh, calls, results>>
stripe_vars == <<arr, stripe_pc, stripe_runs, stripe_out>>
vars == <<driver_vars, seg_vars, stripe_vars>>

(***************************************************************************)
(* Bounds of the model                                                     *)
(***************************************************************************)
MaxFiles == 5          \* images in a folder
GridW == 3             \* columns of the pixel matrices of SpecSeg
MaxCalls == 2          \* successive calls on one matrix in SpecSeg
MaxPoints == 4         \* points of the arrays of SpecStripe

(***************************************************************************)
(* Arithmetic                                                              *)
(***************************************************************************)
Abs(v) == IF v < 0 THEN -v ELSE v

RECURSIVE IsqrtIter(_, _, _)
IsqrtIter(v, lo, hi) ==
    IF lo >= hi THEN lo
    ELSE LET mid == (lo + hi + 1) \div 2
         IN IF mid * mid <= v THEN IsqrtIter(v, mid, hi)
                              ELSE IsqrtIter(v, lo, mid - 1)
\* floor of the square root
Isqrt(v) == IsqrtIter(v, 0, 46340)

RECURSIVE SeqSum(_)
SeqSum(s) == IF s = <<>> THEN 0 ELSE Head(s) + SeqSum(Tail(s))

RECURSIVE SeqSumSq(_)
SeqSumSq(s) == IF s = <<>> THEN 0 ELSE Head(s) * Head(s) + SeqSumSq(Tail(s))

RECURSIVE SelectSeqGt(_, _)
SelectSeqGt(s, floor) ==
    IF s = <<>> THEN <<>>
    ELSE IF Head(s) > floor THEN <<Head(s)>> \o SelectSeqGt(Tail(s), floor)
                            ELSE SelectSeqGt(Tail(s), floor)

\* the calibration 0.53836990 um per pixel, in units of 1e-7 um
Calib7 == 5383699

\* v * 0.53836990 in units of 1e-5 um, truncated (v * Calib7 \div 100 without
\* leaving 32 bits)
MulCalib(v) == v * (Calib7 \div 100) + (v * (Calib7 % 100)) \div 100

\* the width left in pixels (scaled to the same unit), the calibration forgotten
Round5Calib_pixels(v) == v * 100000

\* np.round(0.53836990 * v, 5) in units of 1e-5 um: round half to even
Round5Calib(v) ==
    LET whole == MulCalib(v)
        frac  == (v * (Calib7 % 100)) % 100
    IN IF frac > 50 THEN whole + 1
       ELSE IF frac < 50 THEN whole
       ELSE IF whole % 2 = 0 THEN whole ELSE whole + 1

(***************************************************************************)
(* Contours.  A contour is a sequence of points <<x, y>>; None stands for  *)
(* Python's None (no contour selected).                                    *)
(***************************************************************************)
None == <<>>

Max(S) == CHOOSE v \in S : \A w \in S : w <= v
Min(S) == CHOOSE v \in S : \A w \in S : v <= w

(***************************************************************************)
(* other_segment_3: stripe-width statistics from the contour's points      *)
(***************************************************************************)
\* float('-inf'): every |y1 - y2| is >= 0, so any negative number orders the same
NegInf == -1

\* the floor of the outlier filter, "elem > 60"
layer_width == 60

RECURSIVE InsertByX(_, _)
InsertByX(s, p) ==
    IF s = <<>> THEN <<p>>
    ELSE IF p[1] < Head(s)[1] THEN <<p>> \o s
    ELSE <<Head(s)>> \o InsertByX(Tail(s), p)

\* arr_reshaped[np.argsort(arr_reshaped[:, 0])]: the points ordered by x.  The
\* order inside a group of equal x is of no consequence to the pairwise maximum.
RECURSIVE SortByX(_)
SortByX(a) == IF a = <<>> THEN <<>> ELSE InsertByX(SortByX(Tail(a)), Head(a))

\* the double loop over sup_list: the largest |y1 - y2| over the pairs of the
\* group, float('-inf') when the group has a single point
MaxPairwise(sup) ==
    LET pairs == {ij \in (1..Len(sup)) \X (1..Len(sup)) : ij[1] < ij[2]}
    IN IF pairs = {} THEN NegInf
       ELSE Max({Abs(sup[ij[1]][2] - sup[ij[2]][2]) : ij \in pairs})

\* "for elem in sorted_arr": a group is measured and appended to result_list
\* only when an element with another x arrives
RECURSIVE GroupLoop(_, _, _, _, _)
GroupLoop(sorted, i, prev_x, sup, res) ==
    IF i > Len(sorted) THEN res
    ELSE LET elem == sorted[i]
         IN IF elem[1] = prev_x
            THEN GroupLoop(sorted, i + 1, elem[1], Append(sup, elem), res)
            ELSE GroupLoop(sorted, i + 1, elem[1], <<elem>>,
                           Append(res, MaxPairwise(sup)))

\* result_list as it stands before the filter; <<>> when arr is None (the
\* reshape raises and the outer except returns)
other_segment_3_runs(a) ==
    IF a = None THEN <<>>
    ELSE LET sorted == SortByX(a)
         IN GroupLoop(sorted, 1, sorted[1][1], <<>>, <<>>)

\* <<mean, population standard deviation>> of the runs above layer_width, in
\* 1e-5 um; <<0, 0>> when arr is None or no run is left (both excepts)
other_segment_3(a) ==
    LET kept_runs == SelectSeqGt(other_segment_3_runs(a), layer_width)
        cnt == Len(kept_runs)
        total == SeqSum(kept_runs)
        num == cnt * SeqSumSq(kept_runs) - total * total
    IN IF a = None \/ cnt = 0 THEN <<0, 0>>
       ELSE << MulCalib(total) \div cnt,
               MulCalib(Isqrt(num * 10000)) \div (cnt * 100) >>

(***************************************************************************)
(* The measurement and the return value of Segmentation.segmentation       *)
(***************************************************************************)
\* what img_to_save holds: the annotated PIL image, or the int 0 of the
\* not-found return
ImagePil == "image_pil"
IntZero == "int 0"

\* bottommost[1] - topmost[1]  (rows), in pixels
PixelWidth(segment_object) ==
    LET ys == {segment_object[i][2] : i \in 1..Len(segment_object)}
    IN Max(ys) - Min(ys)

\* rightmost[0] - leftmost[0]  (columns), in pixels
PixelLenght(segment_object) ==
    LET xs == {segment_object[i][1] : i \in 1..Len(segment_object)}
    IN Max(xs) - Min(xs)

\* the value returned when no contour was selected: (0, 0, 0, 0)
NotFoundValue == <<0, IntZero, 0, 0>>

\* lines 176-225: (width, image_pil, avg_width[0], avg_width[1]), or the
\* not-found value; width = np.round(0.53836990 * pixel width, 5)
SegmentationReturn(segment_object) ==
    IF segment_object = None THEN NotFoundValue
    ELSE LET stats == other_segment_3(segment_object)
         IN << Round5Calib(PixelWidth(segment_object)), ImagePil,
               stats[1], stats[2] >>

(***************************************************************************)
(* calculate_percentile_brightness                                         *)
(***************************************************************************)
\* "if type_ != 'dark': procentage = abs(100-procentage)"
EffectivePercentage(procentage, t) ==
    IF t # "dark" THEN Abs(100 - procentage) ELSE procentage

\* a percentile that accepts any q
PercentileRaises_never(procentage, t) == FALSE

\* np.percentile(pixels, q) raises ValueError unless 0 <= q <= 100; nothing
\* between the call and segmentation_for_folder catches it
PercentileRaises(procentage, t) ==
    EffectivePercentage(procentage, t) \notin 0..100

(***************************************************************************)
(* segmentation_for_folder: the adaptive threshold driver                  *)
(*                                                                         *)
(* The image files are outside the program.  What a probe of one image at  *)
(* one level selects is drawn afresh at every probe from ProbeContours;    *)
(* no (mode, level) pair is probed twice for an image, so this covers      *)
(* every image whose probes select these contours.                         *)
(***************************************************************************)
\* the four corner points CHAIN_APPROX_SIMPLE keeps of an upright rectangle
Rect(w, h) == << <<0, 0>>, <<0, h>>, <<w, h>>, <<w, 0>> >>

\* heights (bottommost.y - topmost.y) of the regions a probe may select:
\* 0.5383699 * 55 = 29.61 <= 30 < 30.15 = 0.5383699 * 56
ProbeHeights == {55, 56}

ProbeContours == {None} \cup {Rect(8, h) : h \in ProbeHeights}

\* history only: the pixel width behind a returned width
PxOf(c) == IF c = None THEN -1 ELSE PixelWidth(c)

\* "black_level = 50"
start_level == 50

\* the acceptance bound of "width > 30"
max_width == 30

\* "width > 30", with width in 1e-5 um
OverBound(w) == w > max_width * 100000

\* the first test taken as true whatever the width
TakesDarkBranch_always(w) == TRUE

\* "if width > 30:" after the first probe: TRUE enters the dark loop
TakesDarkBranch(w) == OverBound(w)

\* prev_* left as they were
LoopPrev_stale(cur, prev) == prev

\* what prev_* receive at the top of a loop iteration: the current values
\* (cur and prev are <<width, img_to_save, avg_width, std_div, px>>)
LoopPrev(cur, prev) == cur

\* the decrements "black_level -= 1" and "black_level -= 2"
DarkStep == 1
BrightStep == 2

\* "if index % 4 == 0": the finished group is appended and a new one begun
GroupFlush(i) == i % 4 = 0

\* "prev_img_to_save.save(...)": an int has no save(), AttributeError
SaveRaises(img) == img # ImagePil

DriverInit ==
    /\ n \in 1..MaxFiles
    /\ index = 0
    /\ pc = "for"
    /\ black_level = start_level
    /\ width = 0 /\ img_to_save = IntZero /\ avg_width = 0 /\ std_div = 0
    /\ prev_width = 0 /\ prev_img_to_save = IntZero
    /\ prev_avg_width = 0 /\ prev_std_div = 0
    /\ sup_list = <<>> /\ result_list = <<>>
    /\ avg_sup_list = <<>> /\ avg_result_list = <<>>
    /\ std_div_sup_list = <<>> /\ std_div_result_list = <<>>
    /\ error = ""
    /\ px = -1 /\ prev_px = -1 /\ init_width = 0
    /\ retries = 0 /\ bright_probes = 0
    /\ kept = <<>>

lists_vars == <<sup_list, result_list, avg_sup_list, avg_result_list,
                std_div_sup_list, std_div_result_list, kept>>
cur_vars == <<width, img_to_save, avg_width, std_div, px>>
prev_vars == <<prev_width, prev_img_to_save, prev_avg_width, prev_std_div, prev_px>>

SetCur(c) ==
    LET r == SegmentationReturn(c)
    IN /\ width' = r[1] /\ img_to_save' = r[2]
       /\ avg_width' = r[3] /\ std_div' = r[4]
       /\ px' = PxOf(c)

SetPrev(t) ==
    /\ prev_width' = t[1] /\ prev_img_to_save' = t[2]
    /\ prev_avg_width' = t[3] /\ prev_std_div' = t[4]
    /\ prev_px' = t[5]

\* lines 22-27: the first probe (dark, percentage 50), prev_* = the result,
\* and the choice of the branch
InitialProbe ==
    /\ pc = "for" /\ index < n
    /\ black_level' = start_level
    /\ ~PercentileRaises(start_level, "dark")
    /\ \E c \in ProbeContours :
          /\ SetCur(c)
          /\ SetPrev(<<width', img_to_save', avg_width', std_div', px'>>)
          /\ init_width' = width'
          /\ pc' = IF TakesDarkBranch(width') THEN "dark_while" ELSE "bright_probe"
    /\ retries' = 0 /\ bright_probes' = 0
    /\ UNCHANGED <<n, index, error, lists_vars>>
    /\ UNCHANGED <<seg_vars, stripe_vars>>

\* lines 28-31: one iteration of the dark loop
DarkRetry ==
    /\ pc = "dark_while" /\ OverBound(width)
    /\ SetPrev(LoopPrev(<<width, img_to_save, avg_width, std_div, px>>,
                        <<prev_width, prev_img_to_save, prev_avg_width,
                          prev_std_div, prev_px>>))
    /\ black_level' = black_level - DarkStep
    /\ IF PercentileRaises(black_level', "dark")
       THEN /\ pc' = "aborted" /\ error' = "ValueError"
            /\ UNCHANGED <<cur_vars, retries>>
       ELSE /\ \E c \in ProbeContours : SetCur(c)
            /\ retries' = retries + 1
            /\ UNCHANGED <<pc, error>>
    /\ UNCHANGED <<n, index, init_width, bright_probes, lists_vars>>
    /\ UNCHANGED <<seg_vars, stripe_vars>>

\* line 28 when the test fails: the dark loop is left
DarkExit ==
    /\ pc = "dark_while" /\ ~OverBound(width)
    /\ pc' = "save"
    /\ UNCHANGED <<n, index, black_level, cur_vars, prev_vars, error,
                   init_width, retries, bright_probes, lists_vars>>
    /\ UNCHANGED <<seg_vars, stripe_vars>>

\* line 33: the else branch probes once more, now with type_='brigth'
BrightProbe ==
    /\ pc = "bright_probe"
    /\ ~PercentileRaises(black_level, "brigth")
    /\ \E c \in ProbeContours : SetCur(c)
    /\ bright_probes' = bright_probes + 1
    /\ pc' = "bright_while"
    /\ UNCHANGED <<n, index, black_level, prev_vars, error, init_width,
                   retries, lists_vars>>
    /\ UNCHANGED <<seg_vars, stripe_vars>>

\* lines 34-37: one iteration of the bright loop
BrightRetry ==
    /\ pc = "bright_while" /\ OverBound(width)
    /\ SetPrev(LoopPrev(<<width, img_to_save, avg_width, std_div, px>>,
                        <<prev_width, prev_img_to_save, prev_avg_width,
                          prev_std_div, prev_px>>))
    /\ black_level' = black_level - BrightStep
    /\ IF PercentileRaises(black_level', "brigth")
       THEN /\ pc' = "aborted" /\ error' = "ValueError"
            /\ UNCHANGED <<cur_vars, retries, bright_probes>>
       ELSE /\ \E c \in ProbeContours : SetCur(c)
            /\ retries' = retries + 1
            /\ bright_probes' = bright_probes + 1
            /\ UNCHANGED <<pc, error>>
    /\ UNCHANGED <<n, index, init_width, lists_vars>>
    /\ UNCHANGED <<seg_vars, stripe_vars>>

\* line 34 when the test fails: the bright loop is left
BrightExit ==
    /\ pc = "bright_while" /\ ~OverBound(width)
    /\ pc' = "save"
    /\ UNCHANGED <<n, index, black_level, cur_vars, prev_vars, error,
                   init_width, retries, bright_probes, lists_vars>>
    /\ UNCHANGED <<seg_vars, stripe_vars>>

\* the locals of one iteration before the iteration binds them
LocalsUnbound ==
    /\ black_level' = start_level
    /\ width' = 0 /\ img_to_save' = IntZero /\ avg_width' = 0 /\ std_div' = 0
    /\ prev_width' = 0 /\ prev_img_to_save' = IntZero
    /\ prev_avg_width' = 0 /\ prev_std_div' = 0
    /\ px' = -1 /\ prev_px' = -1 /\ init_width' = 0
    /\ retries' = 0 /\ bright_probes' = 0

\* lines 40-55: prev_img_to_save is never None here (it is an image or the int
\* 0), so the body always runs: save, flush of the group, the three appends.
\* The locals of the iteration are dead once it ends (the next iteration binds
\* black_level, width.. and prev_width.. before reading them): the model
\* holds them at their initial values between iterations.
Save ==
    /\ pc = "save"
    /\ IF SaveRaises(prev_img_to_save)
       THEN /\ pc' = "aborted" /\ error' = "AttributeError"
            /\ UNCHANGED <<index, lists_vars>>
            /\ UNCHANGED <<black_level, cur_vars, prev_vars, init_width, retries,
                           bright_probes>>
       ELSE /\ LET flush == GroupFlush(index)
                   sup == IF flush THEN <<>> ELSE sup_list
                   avg_sup == IF flush THEN <<>> ELSE avg_sup_list
                   std_sup == IF flush THEN <<>> ELSE std_div_sup_list
               IN /\ result_list' = IF flush THEN Append(result_list, sup_list)
                                             ELSE result_list
                  /\ avg_result_list' = IF flush
                                        THEN Append(avg_result_list, avg_sup_list)
                                        ELSE avg_result_list
                  /\ std_div_result_list' = IF flush
                                            THEN Append(std_div_result_list,
                                                        std_div_sup_list)
                                            ELSE std_div_result_list
                  /\ sup_list' = Append(sup, prev_width)
                  /\ avg_sup_list' = Append(avg_sup, prev_avg_width)
                  /\ std_div_sup_list' = Append(std_sup, prev_std_div)
            /\ kept' = Append(kept, <<prev_width, prev_avg_width, prev_std_div>>)
            /\ index' = index + 1
            /\ pc' = "for"
            /\ UNCHANGED error
            /\ LocalsUnbound
    /\ UNCHANGED <<n, seg_vars, stripe_vars>>

\* line 57: return (result_list, avg_result_list, std_div_result_list)
Return ==
    /\ pc = "for" /\ index = n
    /\ pc' = "returned"
    /\ UNCHANGED <<n, index, black_level, cur_vars, prev_vars, error,
                   init_width, retries, bright_probes, lists_vars>>
    /\ UNCHANGED <<seg_vars, stripe_vars>>

SegIdle ==
    /\ image = <<>> /\ image0 = <<>> /\ black_lavel = 0 /\ type_ = "dark"
    /\ gray_in = <<>> /\ thresh = <<>> /\ calls = 0 /\ results = <<>>

StripeIdle ==
    /\ arr = <<>> /\ stripe_pc = "idle" /\ stripe_runs = <<>> /\ stripe_out = <<0, 0>>

Init == DriverInit /\ SegIdle /\ StripeIdle

Next ==
    \/ InitialProbe
    \/ DarkRetry
    \/ DarkExit
    \/ BrightProbe
    \/ BrightRetry
    \/ BrightExit
    \/ Save
    \/ Return

Spec == Init /\ [][Next]_vars

(***************************************************************************)
(* Segmentation.segmentation on a pixel matrix                             *)
(*                                                                         *)
(* A pixel matrix maps each pixel <<x, y>> to its colour.  The frames fed  *)
(* in are black-and-white; "green" is the (0, 255, 0) that drawContours    *)
(* paints.                                                                 *)
(***************************************************************************)
Cols == 0..(GridW - 1)
Rows == 0..2
Pixels == Cols \X Rows

Frames == [Pixels -> {"black", "white"}]
WhiteFrame == [p \in Pixels |-> "white"]

\* cv2.cvtColor(image, cv2.COLOR_BGR2GRAY) of one pixel:
\* 0.114 B + 0.587 G + 0.299 R, rounded (green: 0.587 * 255 = 149.7)
GrayOf(colour) ==
    CASE colour = "black" -> 0
      [] colour = "white" -> 255
      [] colour = "green" -> 150

cvtColor(img) == [p \in DOMAIN img |-> GrayOf(img[p])]

\* a dark mask of the pixels strictly below the level
threshold_below(gray, level, t) ==
    [p \in DOMAIN gray |->
        IF t = "dark"
        THEN (IF gray[p] < level THEN 255 ELSE 0)
        ELSE (IF gray[p] > level THEN 255 ELSE 0)]

\* THRESH_BINARY_INV in both branches
threshold_inverse_only(gray, level, t) ==
    [p \in DOMAIN gray |-> IF gray[p] > level THEN 0 ELSE 255]

\* cv2.threshold(gray, black_lavel, 255, THRESH_BINARY_INV | THRESH_BINARY):
\* BINARY gives 255 where gray > level, BINARY_INV gives 255 where it is not
threshold(gray, level, t) ==
    [p \in DOMAIN gray |->
        IF t = "dark"
        THEN (IF gray[p] > level THEN 0 ELSE 255)
        ELSE (IF gray[p] > level THEN 255 ELSE 0)]

N4(p) == { <<p[1] + 1, p[2]>>, <<p[1] - 1, p[2]>>,
           <<p[1], p[2] + 1>>, <<p[1], p[2] - 1>> }

\* p and q are neighbours: 4-connected (an edge in common) or 8-connected
\* (an edge or a corner)
Adjacent(p, q, conn) ==
    LET dx == Abs(p[1] - q[1])
        dy == Abs(p[2] - q[2])
    IN IF conn = 4 THEN dx + dy = 1 ELSE dx <= 1 /\ dy <= 1 /\ dx + dy > 0

\* the pixels of S connected to the front inside S
RECURSIVE Reach(_, _, _, _)
Reach(front, seen, S, conn) ==
    LET nxt == {q \in S \ seen : \E p \in front : Adjacent(p, q, conn)}
    IN IF nxt = {} THEN seen ELSE Reach(nxt, seen \cup nxt, S, conn)

\* the connected components of S
RECURSIVE Components(_, _)
Components(S, conn) ==
    IF S = {} THEN {}
    ELSE LET p == CHOOSE p \in S : TRUE
             C == Reach({p}, {p}, S, conn)
         IN {C} \cup Components(S \ C, conn)

\* position of a pixel in raster order
RasterKey(p) == p[2] * GridW + p[1]
FirstOf(S) == CHOOSE p \in S : \A q \in S : RasterKey(p) <= RasterKey(q)

\* a set of pixels as a sequence in raster order
RECURSIVE RasterSeq(_)
RasterSeq(S) ==
    IF S = {} THEN <<>>
    ELSE LET p == FirstOf(S) IN <<p>> \o RasterSeq(S \ {p})

\* a set of pixel sets as a sequence, ordered by their first pixels
RECURSIVE RegionSeq(_)
RegionSeq(SS) ==
    IF SS = {} THEN <<>>
    ELSE LET r == CHOOSE r \in SS :
                    \A q \in SS : RasterKey(FirstOf(r)) <= RasterKey(FirstOf(q))
         IN <<r>> \o RegionSeq(SS \ {r})

RECURSIVE Concat(_)
Concat(ss) == IF ss = <<>> THEN <<>> ELSE Head(ss) \o Concat(Tail(ss))

\* cv2.findContours(thresh, RETR_TREE, CHAIN_APPROX_SIMPLE).  Foreground is
\* the non-zero mask; its 8-connected components each give an outer border
\* (the component's pixels with a 4-neighbour outside it that is no hole of
\* it) and one border per hole (the component's pixels 4-adjacent to the
\* hole); a hole is a 4-connected background region that does not touch the
\* frame.  Every use made of a contour here (its extreme coordinates, the
\* region it encloses, the pixels painted) is independent of the order of
\* its points and of the interior points of straight runs that
\* CHAIN_APPROX_SIMPLE drops, so a contour is held as its border pixels in
\* raster order.
findContours(th) ==
    LET fg == {p \in DOMAIN th : th[p] # 0}
        bg == DOMAIN th \ fg
        holes == {h \in Components(bg, 4) : \A p \in h : N4(p) \subseteq DOMAIN th}
        ofComponent(C) ==
            LET mine == RegionSeq({h \in holes : \E p \in h : N4(p) \cap C # {}})
                inHole == UNION {mine[i] : i \in 1..Len(mine)}
                outer == {p \in C : \E q \in N4(p) : q \notin C /\ q \notin inHole}
            IN <<RasterSeq(outer)>> \o
               [i \in 1..Len(mine) |->
                   RasterSeq({p \in C : N4(p) \cap mine[i] # {}})]
        comps == RegionSeq(Components(fg, 8))
    IN Concat([i \in 1..Len(comps) |-> ofComponent(comps[i])])

\* cv2.drawContours(mask, [cnt], -1, 255, -1): the contour's pixels and the
\* pixels they enclose (those that no 4-connected path joins to the frame
\* without crossing the contour)
FilledRegion(cnt, dom) ==
    LET pts == {cnt[i] : i \in 1..Len(cnt)}
        free == dom \ pts
        edge == {p \in free : ~(N4(p) \subseteq dom)}
        open == IF edge = {} THEN {} ELSE Reach(edge, edge, free, 4)
    IN dom \ open

\* cv2.mean(gray, mask=mask)[0] as the pair <<sum, count>>
MeanIntensity(cnt, gray) ==
    LET region == RasterSeq(FilledRegion(cnt, DOMAIN gray))
    IN << SeqSum([i \in 1..Len(region) |-> gray[region[i]]]), Len(region) >>

\* a / b < c / d for positive b, d
LessMean(m1, m2) == m1[1] * m2[2] < m2[1] * m1[2]

\* the loop of darkest_object_func from contour i on: a contour replaces the
\* choice only when its mean is strictly below the least seen so far
RECURSIVE darkest_from(_, _, _, _, _)
darkest_from(contours, gray, i, darkest_object, min_avg_intensity) ==
    IF i > Len(contours) THEN darkest_object
    ELSE LET m == MeanIntensity(contours[i], gray)
         IN IF LessMean(m, min_avg_intensity)
            THEN darkest_from(contours, gray, i + 1, contours[i], m)
            ELSE darkest_from(contours, gray, i + 1, darkest_object,
                              min_avg_intensity)

darkest_object_func(contours, gray) ==
    darkest_from(contours, gray, 1, None, <<256, 1>>)

RECURSIVE brightest_from(_, _, _, _, _)
brightest_from(contours, gray, i, brightest_object, min_avg_intensity) ==
    IF i > Len(contours) THEN brightest_object
    ELSE LET m == MeanIntensity(contours[i], gray)
         IN IF LessMean(min_avg_intensity, m)
            THEN brightest_from(contours, gray, i + 1, contours[i], m)
            ELSE brightest_from(contours, gray, i + 1, brightest_object,
                                min_avg_intensity)

brightest_object_func(contours, gray) ==
    brightest_from(contours, gray, 1, None, <<-1, 1>>)

\* cv2.drawContours(image, [segment_object], -1, (0, 255, 0), 2) writes into
\* image itself: the pixels of the contour turn green (the 2-pixel stroke
\* covers at least these).  The four putText lines start at x = 20, right of
\* every frame considered here, and leave no mark.
drawContours(img, segment_object) ==
    LET pts == {segment_object[i] : i \in 1..Len(segment_object)}
    IN [p \in DOMAIN img |-> IF p \in pts THEN "green" ELSE img[p]]

\* what the array called image is after "try: image = cv2.imread(img) /
\* except: image = img" when img is an array: imread raises, and image is
\* the caller's array itself, not a copy
ImageOperand(img) == img

\* One call segmentation(img, black_lavel, type_) with img an array: the
\* value returned, the matrix img afterwards, and the gray matrix and mask
\* built on the way.
segmentation(img, level, t) ==
    LET operand == ImageOperand(img)
        gray == cvtColor(operand)
        th == threshold(gray, level, t)
        contours == findContours(th)
        segment_object == IF t = "dark" THEN darkest_object_func(contours, gray)
                                        ELSE brightest_object_func(contours, gray)
    IN [ ret    |-> SegmentationReturn(segment_object),
         px     |-> PxOf(segment_object),
         img    |-> IF segment_object = None THEN operand
                    ELSE drawContours(operand, segment_object),
         gray   |-> gray,
         thresh |-> th ]

\* threshold levels on every side of the gray values that occur (0, 150, 255)
Levels == {0, 149, 150, 254, 255}

\* the all-white frame is probed at every level of the 8-bit range
LevelsFor(img) == IF img = WhiteFrame THEN 0..255 ELSE Levels

DriverIdle ==
    /\ n = 0 /\ index = 0 /\ pc = "idle" /\ black_level = start_level
    /\ width = 0 /\ img_to_save = IntZero /\ avg_width = 0 /\ std_div = 0
    /\ prev_width = 0 /\ prev_img_to_save = IntZero
    /\ prev_avg_width = 0 /\ prev_std_div = 0
    /\ sup_list = <<>> /\ result_list = <<>>
    /\ avg_sup_list = <<>> /\ avg_result_list = <<>>
    /\ std_div_sup_list = <<>> /\ std_div_result_list = <<>>
    /\ error = ""
    /\ px = -1 /\ prev_px = -1 /\ init_width = 0
    /\ retries = 0 /\ bright_probes = 0
    /\ kept = <<>>

SegInit ==
    /\ image \in Frames
    /\ image0 = image
    /\ type_ \in {"dark", "brigth"}
    /\ black_lavel \in LevelsFor(image)
    /\ gray_in = <<>> /\ thresh = <<>>
    /\ calls = 0 /\ results = <<>>

\* the caller runs segmentation(image, black_lavel, type_) on its matrix
SegCall ==
    /\ calls < MaxCalls
    /\ \E out \in {segmentation(image, black_lavel, type_)} :
          /\ results' = Append(results, <<out.ret, out.px>>)
          /\ image' = out.img
          /\ gray_in' = out.gray
          /\ thresh' = out.thresh
    /\ calls' = calls + 1
    /\ UNCHANGED <<image0, black_lavel, type_, driver_vars, stripe_vars>>

InitSeg == DriverIdle /\ SegInit /\ StripeIdle
NextSeg == SegCall
SpecSeg == InitSeg /\ [][NextSeg]_vars

(***************************************************************************)
(* other_segment_3 applied to arrays of points                             *)
(***************************************************************************)
StripeXs == 0..2
StripeYs == {0, 30, 100}

RECURSIVE SeqsUpTo(_, _)
SeqsUpTo(S, k) ==
    IF k = 0 THEN {<<>>}
    ELSE LET shorter == SeqsUpTo(S, k - 1)
         IN shorter \cup {Append(q, e) : q \in shorter, e \in S}

\* None, and every array of 1..MaxPoints points
PointArrays == SeqsUpTo(StripeXs \X StripeYs, MaxPoints)

StripeInit ==
    /\ arr \in PointArrays
    /\ stripe_pc = "start"
    /\ stripe_runs = <<>>
    /\ stripe_out = <<0, 0>>

\* avg_width = other_segment_3(segment_object)
StripeRun ==
    /\ stripe_pc = "start"
    /\ stripe_runs' = other_segment_3_runs(arr)
    /\ stripe_out' = other_segment_3(arr)
    /\ stripe_pc' = "done"
    /\ UNCHANGED <<arr, driver_vars, seg_vars>>

InitStripe == DriverIdle /\ SegIdle /\ StripeInit
NextStripe == StripeRun
SpecStripe == InitStripe /\ [][NextStripe]_vars

(***************************************************************************)
(* Properties of the driver (Spec)                                         *)
(***************************************************************************)
AtSave == pc = "save"
InLoop == pc \in {"dark_while", "bright_while"}

\* C1 as stated: whenever the driver keeps a result for an image, the kept
\* width is within the bound: prev_width <= 30.
C1_KeptWidthInBound ==
    (AtSave /\ ~SaveRaises(prev_img_to_save)) => ~OverBound(prev_width)

\* C1 amended: the result kept is the one of the probe before the last.  With
\* no retry it is the first (dark) probe's result and within the bound; after
\* any retry, in either loop, the kept width is above the bound.
C1_KeptIsProbeBeforeLast ==
    AtSave =>
        /\ (retries = 0 => prev_width = init_width /\ ~OverBound(prev_width))
        /\ (retries > 0 => OverBound(prev_width) /\ ~OverBound(width))

C1_Witness ==
    /\ AtSave /\ retries > 0 /\ bright_probes > 0
    /\ prev_img_to_save = ImagePil /\ OverBound(prev_width)

\* C2 as stated: a first dark probe within the bound is returned as it is, and
\* no probe with type_='brigth' is made for the image.
C2_NoBrightProbeWhenInBound ==
    (AtSave /\ ~OverBound(init_width)) =>
        (bright_probes = 0 /\ prev_width = init_width)

\* C2 amended: a first dark probe within the bound is always followed by a
\* bright probe; the first result is the one kept exactly when no bright retry
\* was made.  A first probe above the bound is followed by no bright probe.
C2_BrightProbeFollowsInBound ==
    AtSave =>
        /\ (~OverBound(init_width) =>
                /\ bright_probes >= 1
                /\ (retries = 0 <=> prev_width = init_width))
        /\ (OverBound(init_width) => bright_probes = 0)

C2_Witness ==
    /\ AtSave /\ ~OverBound(init_width) /\ init_width > 0
    /\ bright_probes = 1 /\ prev_width = init_width

\* C3: an image that fails does not end the batch while later images are left
\* to process.
C3_FailureDoesNotAbortBatch == ~(pc = "aborted" /\ index + 1 < n)

\* C4: the retries of one image are bounded by the level: each dark retry
\* lowers black_level by 1 and each bright retry by 2 from 50, no probe is made
\* at a level outside 0..50, and leaving that range ends the loop with the
\* ValueError of the percentile, the width still above the bound.
C4_RetriesEndWithError ==
    /\ retries <= start_level
    /\ (pc = "dark_while" => retries * DarkStep = start_level - black_level)
    /\ (pc = "bright_while" => retries * BrightStep = start_level - black_level)
    /\ (InLoop => black_level \in 0..start_level)
    /\ (error = "ValueError" =>
            pc = "aborted" /\ black_level < 0 /\ OverBound(prev_width))

C4_Witness ==
    /\ pc = "aborted" /\ error = "ValueError"
    /\ bright_probes = 0 /\ retries = start_level

FieldOf(k, j) == [i \in 1..Len(k) |-> k[i][j]]

GroupsOfFour(groups) ==
    \A g \in 1..Len(groups) :
        /\ Len(groups[g]) >= 1
        /\ Len(groups[g]) <= 4
        /\ (g < Len(groups) => Len(groups[g]) = 4)

\* C10: when the folder is done without error the three lists hold the kept
\* width, mean and deviation of every image once, in order, in non-empty
\* groups of four.
C10_ListsHoldEveryImage ==
    pc = "returned" =>
        /\ Len(kept) = n
        /\ Concat(result_list) = FieldOf(kept, 1)
        /\ Concat(avg_result_list) = FieldOf(kept, 2)
        /\ Concat(std_div_result_list) = FieldOf(kept, 3)
        /\ GroupsOfFour(result_list)
        /\ GroupsOfFour(avg_result_list)
        /\ GroupsOfFour(std_div_result_list)

(***************************************************************************)
(* Properties of Segmentation.segmentation (SpecSeg)                       *)
(***************************************************************************)
WhiteDark == calls >= 1 /\ image0 = WhiteFrame /\ type_ = "dark"

\* C5 as stated: an all-white frame in dark mode yields the not-found value at
\* every level 0..255.
C5_WhiteNotFoundEveryLevel == WhiteDark => results[1][1] = NotFoundValue

\* C5 amended: it yields the not-found value at every level 0..254; at 255
\* no pixel is above the level, the whole frame is foreground and a region is
\* returned.
C5_WhiteNotFoundBelow255 ==
    WhiteDark => (black_lavel <= 254 <=> results[1][1] = NotFoundValue)

C5_Witness == WhiteDark /\ black_lavel = 254 /\ results[1][1] = NotFoundValue

\* C6: a second call on the same matrix with the same level and mode returns
\* what the first returned, and the matrix is as it was handed over.
C6_SecondCallSame ==
    calls >= 2 => (results[2] = results[1] /\ image = image0)

OtherType(t) == IF t = "dark" THEN "brigth" ELSE "dark"

\* C7: away from the pixels whose gray value equals the level, the mask built
\* by a call is the complement of the mask of the other mode at that level.
C7_MasksComplementary ==
    calls >= 1 =>
        \A p \in Pixels :
            gray_in[p] # black_lavel =>
                ((thresh[p] # 0) <=>
                 (threshold(gray_in, black_lavel, OtherType(type_))[p] = 0))

C7_Witness ==
    /\ calls >= 1
    /\ \E p \in Pixels : thresh[p] # 0
    /\ \E p \in Pixels : thresh[p] = 0
    /\ \E p \in Pixels : gray_in[p] = black_lavel

(***************************************************************************)
(* Properties of other_segment_3 (SpecStripe)                              *)
(***************************************************************************)
XsOf(a) == {a[i][1] : i \in 1..Len(a)}
YsAt(a, x) == {a[i][2] : i \in {j \in 1..Len(a) : a[j][1] = x}}
\* the k-th smallest element of a set of numbers
RECURSIVE Kth(_, _)
Kth(S, k) == IF k = 1 THEN Min(S) ELSE Kth(S \ {Min(S)}, k - 1)

\* C9: before the filter, result_list holds one value per distinct x of the
\* contour, none left out, each the largest y-distance between two points of
\* that x.
C9_OneRunPerColumn ==
    (stripe_pc = "done" /\ arr # None) =>
        /\ Len(stripe_runs) = Cardinality(XsOf(arr))
        /\ \A k \in 1..Len(stripe_runs) :
              LET ys == YsAt(arr, Kth(XsOf(arr), k))
              IN Cardinality(ys) > 1 => stripe_runs[k] = Max(ys) - Min(ys)

====
